---- MODULE Spec2Model ----
(***************************************************************************)
(* Vendor location state and the discovery query of the ice-cream-finder   *)
(* backend: routes/sellers.ts, routes/admin.ts, routes/auth.ts and the     *)
(* sellers table of db/schema.ts.                                          *)
(*                                                                         *)
(* Time is counted in minutes.  Coordinates are whole degrees, which the   *)
(* decimal(10,7) columns hold exactly.  Distances are hundredths of a mile.*)
(***************************************************************************)
EXTENDS Integers, Sequences, FiniteSets, TLC

VARIABLES sellers, users, clock, last, req

vars == <<sellers, users, clock, last, req>>

(***************************************************************************)
(* Bounds of the model.                                                    *)
(***************************************************************************)
MaxClock == 20
WriteMaxClock == 5
ConcMaxClock == 5
TickMinutes == 5
NumProcs == 2

\* two vendors: the least that gives the discovery result an order
Vendors == {1, 2}
Procs == 1..NumProcs

(***************************************************************************)
(* Program constants.                                                      *)
(***************************************************************************)
STALE_THRESHOLD_MINUTES == 15
DefaultRadius == 50
DecimalPrecision == 10
DecimalScale == 7

(***************************************************************************)
(* Optional values: a SQL NULL / JS null is <<>>, a value x is <<x>>.      *)
(* An absent key of an object is also <<>>, a present key with value x is  *)
(* <<x>> (so a key present with the value null is << <<>> >>).             *)
(***************************************************************************)
None == <<>>
Some(x) == <<x>>

(***************************************************************************)
(* JSON values of a request body.                                          *)
(***************************************************************************)
Undef == [k |-> "undefined", v |-> 0]
Null == [k |-> "null", v |-> 0]
Num(n) == [k |-> "number", v |-> n]
True == [k |-> "boolean", v |-> 1]
False == [k |-> "boolean", v |-> 0]

\* JS truthiness of a JSON value (undefined, null, 0 and false are falsy)
Truthy(j) == j.k \in {"number", "boolean"} /\ j.v # 0

\* JS truthiness of a number-or-null held as an optional
TruthyNum(o) == o # None /\ o[1] # 0

\* <<latitude, longitude>> of the request bodies tried: none, whole points
\* (one on the equator, one on the prime meridian), one coordinate without
\* the other, and a null latitude
LocInputs ==
  {<<Undef, Undef>>, <<Num(1), Num(1)>>, <<Num(2), Num(1)>>,
   <<Num(0), Num(1)>>, <<Num(1), Num(0)>>,
   <<Num(2), Undef>>, <<Undef, Num(1)>>, <<Null, Num(1)>>}
ActiveInputs == {Undef, True, False}

Bodies ==
  {[latitude |-> l[1], longitude |-> l[2], isActive |-> a] :
     l \in LocInputs, a \in ActiveInputs}

NoBody == [latitude |-> Undef, longitude |-> Undef, isActive |-> Undef]

(***************************************************************************)
(* The sellers table.  A row that was never inserted has status "unused",  *)
(* a deleted one "deleted" (serial ids are not reused).                    *)
(***************************************************************************)
NoRow ==
  [status |-> "unused", isActive |-> FALSE, latitude |-> None,
   longitude |-> None, lastLocationUpdate |-> None]

\* db.insert(sellers).values({userId, businessName, ...}): column defaults
NewSellerRow ==
  [status |-> "live", isActive |-> FALSE, latitude |-> None,
   longitude |-> None, lastLocationUpdate |-> None]

DeletedRow == [NoRow EXCEPT !.status = "deleted"]

\* db.select().from(sellers).where(eq(sellers.userId, userId)).limit(1)
SelectSeller(db, id) == IF db[id].status = "live" THEN Some(id) ELSE None

(***************************************************************************)
(* PATCH /location                                                         *)
(***************************************************************************)
\* x.toString() throws a TypeError on null (and undefined)
ToStringThrows(j) == j.k \in {"null", "undefined"}

\* the text a number is sent as; the decimal column parses it back
NumberToString(j) == j.v

\* a decimal(10,7) column holds at most 10 - 7 integer digits
DecimalFits(n) ==
  /\ n < 10 ^ (DecimalPrecision - DecimalScale)
  /\ n > -(10 ^ (DecimalPrecision - DecimalScale))

NoUpdate ==
  [latitude |-> None, longitude |-> None, lastLocationUpdate |-> None,
   isActive |-> None]

\* each coordinate written on its own
WithLocationEach(upd, body, now) ==
  [upd EXCEPT
     !.latitude = IF body.latitude # Undef
                  THEN Some(Some(NumberToString(body.latitude))) ELSE @,
     !.longitude = IF body.longitude # Undef
                   THEN Some(Some(NumberToString(body.longitude))) ELSE @,
     !.lastLocationUpdate = IF body.longitude # Undef
                            THEN Some(Some(now)) ELSE @]

\* the coordinates block, lines 193-197
WithLocation(upd, body, now) ==
  IF body.latitude # Undef /\ body.longitude # Undef
  THEN [upd EXCEPT !.latitude = Some(Some(NumberToString(body.latitude))),
                   !.longitude = Some(Some(NumberToString(body.longitude))),
                   !.lastLocationUpdate = Some(Some(now))]
  ELSE upd

\* the isActive block, lines 199-206
WithActive(upd, body) ==
  IF body.isActive # Undef
  THEN IF ~Truthy(body.isActive)
       THEN [upd EXCEPT !.isActive = Some(Truthy(body.isActive)),
                        !.latitude = Some(None),
                        !.longitude = Some(None),
                        !.lastLocationUpdate = Some(None)]
       ELSE [upd EXCEPT !.isActive = Some(Truthy(body.isActive))]
  ELSE upd

\* the handler throws before the update when toString() is called on null
BuildThrows(body) ==
  /\ body.latitude # Undef
  /\ body.longitude # Undef
  /\ (ToStringThrows(body.latitude) \/ ToStringThrows(body.longitude))

\* the two blocks in the other order
WrongOrderUpdateData(body, now) ==
  WithLocation(WithActive(NoUpdate, body), body, now)

\* a location write that also switches the vendor on
ActivatingUpdateData(body, now) ==
  LET upd == WithActive(WithLocation(NoUpdate, body, now), body)
  IN  IF body.latitude # Undef /\ body.longitude # Undef
         /\ body.isActive = Undef
      THEN [upd EXCEPT !.isActive = Some(TRUE)]
      ELSE upd

\* updateData as built by lines 191-206
BuildUpdateData(body, now) ==
  WithActive(WithLocation(NoUpdate, body, now), body)

\* the database rejects a value that does not fit the column
DbRejects(upd) ==
  \/ upd.latitude # None /\ upd.latitude[1] # None
       /\ ~DecimalFits(upd.latitude[1][1])
  \/ upd.longitude # None /\ upd.longitude[1] # None
       /\ ~DecimalFits(upd.longitude[1][1])

\* the coordinates written without the timestamp
PartialSetRow(row, upd) ==
  [row EXCEPT
     !.isActive = IF upd.isActive = None THEN @ ELSE upd.isActive[1],
     !.latitude = IF upd.latitude = None THEN @ ELSE upd.latitude[1],
     !.longitude = IF upd.longitude = None THEN @ ELSE upd.longitude[1]]

\* db.update(sellers).set(updateData): one UPDATE statement sets every key
\* present in updateData and leaves the other columns alone
SetRow(row, upd) ==
  [row EXCEPT
     !.isActive = IF upd.isActive = None THEN @ ELSE upd.isActive[1],
     !.latitude = IF upd.latitude = None THEN @ ELSE upd.latitude[1],
     !.longitude = IF upd.longitude = None THEN @ ELSE upd.longitude[1],
     !.lastLocationUpdate =
        IF upd.lastLocationUpdate = None THEN @
        ELSE upd.lastLocationUpdate[1]]

\* ... .where(eq(sellers.id, id)): no row matches a deleted seller
DbUpdate(db, id, upd) ==
  IF db[id].status = "live"
  THEN [db EXCEPT ![id] = SetRow(db[id], upd)]
  ELSE db

NoQuery == [lat |-> None, lng |-> None, radius |-> None]

Idle ==
  [op |-> "none", id |-> 0, status |-> 0, body |-> NoBody,
   wasActive |-> FALSE, q |-> NoQuery, result |-> <<>>]

\* HTTP status of PATCH /location run to completion on db
PatchStatus(db, u, body) ==
  IF SelectSeller(db, u) = None THEN 404
  ELSE IF BuildThrows(body) THEN 500
  ELSE IF DbRejects(BuildUpdateData(body, 0)) THEN 500
  ELSE 200

\* router.patch('/location'), the handler run without interruption
PatchLocation(u, body) ==
  /\ sellers[u].status # "unused"
  /\ sellers' = IF PatchStatus(sellers, u, body) = 200
                THEN DbUpdate(sellers, u, BuildUpdateData(body, clock))
                ELSE sellers
  /\ last' = [Idle EXCEPT !.op = "patch", !.id = u, !.body = body,
                          !.status = PatchStatus(sellers, u, body),
                          !.wasActive = sellers[u].isActive]
  /\ UNCHANGED <<users, clock, req>>

(***************************************************************************)
(* PATCH /location as the event loop runs it: the handler gives way at     *)
(* each await, so the statements of other requests run between its select, *)
(* its update and its second select.                                       *)
(***************************************************************************)
IdleReq == [pc |-> "idle", sid |-> None, body |-> NoBody, upd |-> NoUpdate]

\* a step that sends no response
Await == [Idle EXCEPT !.op = "await"]

Answer(p, status) ==
  [Idle EXCEPT !.op = "patchResponse", !.status = status,
               !.id = IF req[p].sid = None THEN 0 ELSE req[p].sid[1],
               !.body = req[p].body]

\* lines 182-185: the select runs in the database
PatchSelect(p, u) ==
  /\ req[p].pc = "idle"
  /\ sellers[u].status # "unused"
  /\ req' = [req EXCEPT ![p] = [IdleReq EXCEPT !.pc = "selected",
                                               !.sid = SelectSeller(sellers, u)]]
  /\ last' = Await
  /\ UNCHANGED <<sellers, users, clock>>

\* lines 187-208: 404 without a seller, else updateData is built (new Date()
\* is read here) and the update is sent
PatchBuild(p, body) ==
  /\ req[p].pc = "selected"
  /\ req' = [req EXCEPT ![p] =
               IF req[p].sid = None \/ BuildThrows(body) THEN IdleReq
               ELSE [@ EXCEPT !.pc = "built", !.body = body,
                              !.upd = BuildUpdateData(body, clock)]]
  /\ last' = IF req[p].sid = None THEN Answer(p, 404)
             ELSE IF BuildThrows(body)
                  THEN [Answer(p, 500) EXCEPT !.body = body]
                  ELSE Await
  /\ UNCHANGED <<sellers, users, clock>>

\* lines 208-210: the UPDATE statement runs in the database
PatchApply(p) ==
  /\ req[p].pc = "built"
  /\ sellers' = IF DbRejects(req[p].upd) THEN sellers
                ELSE DbUpdate(sellers, req[p].sid[1], req[p].upd)
  /\ req' = [req EXCEPT ![p] = IF DbRejects(req[p].upd) THEN IdleReq
                               ELSE [@ EXCEPT !.pc = "updated"]]
  /\ last' = IF DbRejects(req[p].upd) THEN Answer(p, 500) ELSE Await
  /\ UNCHANGED <<users, clock>>

\* lines 212-222: the second select and the response; reading a field of
\* the missing row throws, which the catch block answers with 500
PatchRespond(p) ==
  /\ req[p].pc = "updated"
  /\ req' = [req EXCEPT ![p] = IdleReq]
  /\ last' = Answer(p, IF SelectSeller(sellers, req[p].sid[1]) = None
                       THEN 500 ELSE 200)
  /\ UNCHANGED <<sellers, users, clock>>

\* the user types a token can carry
UserTypes == {"searcher", "seller", "admin"}

\* sellerOnly lets the request through to the handler
sellerOnly(userType) == userType = "seller"

\* PATCH /location with a token of another user type: sellerOnly answers
\* 403 and the handler does not run
PatchDenied(userType) ==
  /\ ~sellerOnly(userType)
  /\ last' = [Idle EXCEPT !.op = "patchDenied", !.status = 403]
  /\ UNCHANGED <<sellers, users, clock, req>>

(***************************************************************************)
(* POST /register                                                          *)
(***************************************************************************)
Register(u) ==
  /\ sellers[u].status = "unused"
  /\ sellers' = [sellers EXCEPT ![u] = NewSellerRow]
  /\ users' = [users EXCEPT ![u] = "seller"]
  /\ last' = [Idle EXCEPT !.op = "register", !.id = u, !.status = 201]
  /\ UNCHANGED <<clock, req>>

(***************************************************************************)
(* Admin routes (the caller holds an admin token)                          *)
(***************************************************************************)
\* router.put('/vendors/:id'): .set({..., isActive, ...}) skips an undefined
\* isActive; the coordinates are not in the set
AdminPutRow(row, isActive) ==
  IF isActive = Undef THEN row ELSE [row EXCEPT !.isActive = Truthy(isActive)]

AdminPutVendor(id, isActive) ==
  /\ sellers' = IF sellers[id].status = "live"
                THEN [sellers EXCEPT ![id] = AdminPutRow(sellers[id], isActive)]
                ELSE sellers
  /\ last' = [Idle EXCEPT !.op = "adminPut", !.id = id,
                          !.status = IF sellers[id].status = "live"
                                     THEN 200 ELSE 404]
  /\ UNCHANGED <<users, clock, req>>

\* .set({ isActive: !seller.isActive, updatedAt })
ToggleRow(row, seen) == [row EXCEPT !.isActive = ~seen.isActive]

\* router.put('/vendors/:id/toggle-active'), run without interruption
AdminToggleActive(id) ==
  /\ sellers' = IF sellers[id].status = "live"
                THEN [sellers EXCEPT ![id] = ToggleRow(sellers[id], sellers[id])]
                ELSE sellers
  /\ last' = [Idle EXCEPT !.op = "adminToggle", !.id = id,
                          !.status = IF sellers[id].status = "live"
                                     THEN 200 ELSE 404]
  /\ UNCHANGED <<users, clock, req>>

\* the update the toggle handler sends after it has read the row as seen
ToggleUpdate(seen) == [NoUpdate EXCEPT !.isActive = Some(~seen.isActive)]

\* toggle-active as the event loop runs it, lines 137-140: the select; 404
\* without a seller, else !seller.isActive is computed from the row read
ToggleSelect(p, id) ==
  /\ req[p].pc = "idle"
  /\ sellers[id].status # "unused"
  /\ req' = [req EXCEPT ![p] =
               IF SelectSeller(sellers, id) = None THEN IdleReq
               ELSE [IdleReq EXCEPT !.pc = "toggling", !.sid = Some(id),
                                    !.upd = ToggleUpdate(sellers[id])]]
  /\ last' = IF SelectSeller(sellers, id) = None
             THEN [Idle EXCEPT !.op = "adminToggle", !.id = id, !.status = 404]
             ELSE Await
  /\ UNCHANGED <<sellers, users, clock>>

\* lines 142-153: the UPDATE ... RETURNING and the response; with no row
\* returned, reading updatedSeller.isActive throws and the answer is 500
ToggleApply(p) ==
  /\ req[p].pc = "toggling"
  /\ sellers' = DbUpdate(sellers, req[p].sid[1], req[p].upd)
  /\ req' = [req EXCEPT ![p] = IdleReq]
  /\ last' = [Idle EXCEPT !.op = "adminToggle", !.id = req[p].sid[1],
                          !.status = IF SelectSeller(sellers, req[p].sid[1]) = None
                                     THEN 500 ELSE 200]
  /\ UNCHANGED <<users, clock>>

\* router.delete('/vendors/:id'), run without interruption: the seller row
\* and then the user it belongs to are deleted, whoever that user is
AdminDeleteVendor(id) ==
  /\ sellers' = IF sellers[id].status = "live"
                THEN [sellers EXCEPT ![id] = DeletedRow]
                ELSE sellers
  /\ users' = IF sellers[id].status = "live"
              THEN [users EXCEPT ![id] = "deleted"]
              ELSE users
  /\ last' = [Idle EXCEPT !.op = "adminDelete", !.id = id,
                          !.status = IF sellers[id].status = "live"
                                     THEN 200 ELSE 404]
  /\ UNCHANGED <<clock, req>>

\* adminOnly lets the request through to the handler
adminOnly(userType) == userType = "admin"

\* user a holds an admin token: a registered, was promoted and logged in
IsAdmin(a) == adminOnly(users[a])

\* README, Admin Setup: UPDATE users SET user_type = 'admin' on a user who
\* registered as a seller; the seller row stays
Promote(u) ==
  /\ users[u] = "seller"
  /\ users' = [users EXCEPT ![u] = "admin"]
  /\ last' = [Idle EXCEPT !.op = "promote", !.id = u, !.status = 200]
  /\ UNCHANGED <<sellers, clock, req>>

\* the vendor routes of the admin, sent by user a of the table
AdminDeleteVendorBy(a, id) == IsAdmin(a) /\ AdminDeleteVendor(id)
AdminToggleActiveBy(a, id) == IsAdmin(a) /\ AdminToggleActive(id)
AdminPutVendorBy(a, id, isActive) == IsAdmin(a) /\ AdminPutVendor(id, isActive)

\* HTTP status of DELETE /users/:id sent by user a: the seller row is
\* deleted first only for a user of type 'seller'; deleting a user that a
\* seller row still references breaks sellers.user_id's foreign key
DeleteUserStatus(a, id) ==
  IF id = a THEN 400
  ELSE IF users[id] \in {"none", "deleted"} THEN 404
  ELSE IF users[id] # "seller" /\ sellers[id].status = "live" THEN 500
  ELSE 200

\* router.delete('/users/:id') sent by admin a, run without interruption
AdminDeleteUser(a, id) ==
  /\ IsAdmin(a)
  /\ sellers' = IF DeleteUserStatus(a, id) = 200 /\ sellers[id].status = "live"
                THEN [sellers EXCEPT ![id] = DeletedRow]
                ELSE sellers
  /\ users' = IF DeleteUserStatus(a, id) = 200
              THEN [users EXCEPT ![id] = "deleted"]
              ELSE users
  /\ last' = [Idle EXCEPT !.op = "adminDeleteUser", !.id = id,
                          !.status = DeleteUserStatus(a, id)]
  /\ UNCHANGED <<clock, req>>

(***************************************************************************)
(* GET /active                                                             *)
(***************************************************************************)
Abs(x) == IF x < 0 THEN -x ELSE x

\* calculateDistance: the haversine formula on a sphere of radius 3959
\* miles, in hundredths of a mile, at the whole-degree points of the model
\* (latitudes 0..2, longitudes 0..1).  Along a meridian it is
\* 3959 * pi/180 = 69.10 miles a degree; across one degree of longitude it
\* is the value of the formula at the two latitudes.
calculateDistance(lat1, lon1, lat2, lon2) ==
  IF lon1 = lon2 THEN 6910 * Abs(lat2 - lat1)
  ELSE CASE {lat1, lat2} = {0} -> 6910
         [] {lat1, lat2} = {0, 1} -> 9772
         [] {lat1, lat2} = {0, 2} -> 15450
         [] {lat1, lat2} = {1} -> 6909
         [] {lat1, lat2} = {1, 2} -> 9770
         [] {lat1, lat2} = {2} -> 6906

\* const { lat, lng, radius = '50' } = req.query; parseFloat(radius)
RadiusMiles(q) == IF q.radius = None THEN DefaultRadius ELSE q.radius[1]

\* lat ? parseFloat(lat) : null
UserLat(q) == q.lat
UserLng(q) == q.lng

\* if (userLat && userLng ...): the query has an origin
HasOrigin(q) == TruthyNum(UserLat(q)) /\ TruthyNum(UserLng(q))

\* gt in place of gte
StrictlyFresh(row, now) ==
  /\ row.lastLocationUpdate # None
  /\ row.lastLocationUpdate[1] > now - STALE_THRESHOLD_MINUTES

\* gte(sellers.lastLocationUpdate, staleThreshold), with
\* staleThreshold = now - STALE_THRESHOLD_MINUTES; NULL >= x is not true
Fresh(row, now) ==
  /\ row.lastLocationUpdate # None
  /\ row.lastLocationUpdate[1] >= now - STALE_THRESHOLD_MINUTES

\* the where clause of the select, lines 31-38
Selected(row, now) == row.status = "live" /\ row.isActive /\ Fresh(row, now)

\* the orders in which a select without ORDER BY may return the rows
Orders == {o \in [1..Cardinality(Vendors) -> Vendors] :
             \A i, j \in DOMAIN o : o[i] = o[j] => i = j}

ActiveSellers(db, now, ord) ==
  SelectSeq(ord, LAMBDA id : Selected(db[id], now))

\* seller.latitude ? parseFloat(seller.latitude) : null -- the column is a
\* non-empty string whenever it is not NULL
SellerCoord(c) == c

\* the object built for one seller, lines 46-68
VendorView(db, q, id) ==
  LET sellerLat == SellerCoord(db[id].latitude)
      sellerLng == SellerCoord(db[id].longitude)
  IN  [id |-> id, latitude |-> sellerLat, longitude |-> sellerLng,
       timestamp |-> db[id].lastLocationUpdate,
       distance |->
         IF HasOrigin(q) /\ TruthyNum(sellerLat) /\ TruthyNum(sellerLng)
         THEN calculateDistance(UserLat(q)[1], UserLng(q)[1],
                                sellerLat[1], sellerLng[1])
         ELSE 0]

\* v => v.latitude && v.longitude
HasCoordinates(v) == TruthyNum(v.latitude) /\ TruthyNum(v.longitude)

\* v => v.distance <= radiusMiles
WithinRadius(v, q) == v.distance <= 100 * RadiusMiles(q)

\* x put into the sorted s behind every element that is not farther
InsertByDistance(s, x) ==
  LET n == Cardinality({i \in DOMAIN s : s[i].distance <= x.distance})
  IN  SubSeq(s, 1, n) \o <<x>> \o SubSeq(s, n + 1, Len(s))

RECURSIVE SortByDistance(_)
\* filteredVendors.sort((a, b) => a.distance - b.distance): a stable sort
SortByDistance(s) ==
  IF s = <<>> THEN <<>>
  ELSE InsertByDistance(SortByDistance(SubSeq(s, 1, Len(s) - 1)), s[Len(s)])

\* the response of GET /active, lines 40-79
QueryResult(db, now, q, ord) ==
  LET active == ActiveSellers(db, now, ord)
      views == [i \in DOMAIN active |-> VendorView(db, q, active[i])]
      filtered == SelectSeq(views, HasCoordinates)
  IN  IF HasOrigin(q)
      THEN SortByDistance(SelectSeq(filtered, LAMBDA v : WithinRadius(v, q)))
      ELSE filtered

Origins == {<<None, None>>, <<Some(1), Some(1)>>, <<Some(0), Some(1)>>,
            <<Some(1), Some(0)>>}
Radii == {None, Some(100)}
Queries == {[lat |-> o[1], lng |-> o[2], radius |-> r] :
              o \in Origins, r \in Radii}

\* a query that also switches off the vendors it finds stale
GetActiveExpiring(q, ord) ==
  /\ last' = [Idle EXCEPT !.op = "query", !.status = 200, !.q = q,
                          !.result = QueryResult(sellers, clock, q, ord)]
  /\ sellers' = [v \in Vendors |->
                  IF sellers[v].status = "live" /\ sellers[v].isActive
                     /\ ~Fresh(sellers[v], clock)
                  THEN [sellers[v] EXCEPT !.isActive = FALSE,
                                          !.latitude = None,
                                          !.longitude = None,
                                          !.lastLocationUpdate = None]
                  ELSE sellers[v]]
  /\ UNCHANGED <<users, clock, req>>

\* router.get('/active')
GetActive(q, ord) ==
  /\ last' = [Idle EXCEPT !.op = "query", !.status = 200, !.q = q,
                          !.result = QueryResult(sellers, clock, q, ord)]
  /\ UNCHANGED <<sellers, users, clock, req>>

(***************************************************************************)
(* Time                                                                    *)
(***************************************************************************)
Tick(max) ==
  /\ clock + TickMinutes <= max
  /\ clock' = clock + TickMinutes
  /\ last' = [Idle EXCEPT !.op = "tick"]
  /\ UNCHANGED <<sellers, users, req>>

Init ==
  /\ sellers = [v \in Vendors |-> NoRow]
  /\ users = [v \in Vendors |-> "none"]
  /\ clock = 0
  /\ last = Idle
  /\ req = [p \in Procs |-> IdleReq]

\* the requests that change vendor records, each run to completion
Next ==
  \/ \E u \in Vendors : Register(u)
  \/ \E u \in Vendors, body \in Bodies : PatchLocation(u, body)
  \/ \E id \in Vendors, a \in ActiveInputs : AdminPutVendor(id, a)
  \/ \E id \in Vendors : AdminToggleActive(id)
  \/ \E id \in Vendors : AdminDeleteVendor(id)
  \/ Tick(WriteMaxClock)

Spec == Init /\ [][Next]_vars

\* bodies that carry isActive and either a whole position or none
QueryBodies ==
  {b \in Bodies : /\ b.isActive # Undef
                  /\ (b.latitude = Undef) = (b.longitude = Undef)
                  /\ b.latitude # Null}

\* discovery queries over time, among location and active updates
NextQuery ==
  \/ \E u \in Vendors : Register(u)
  \/ \E u \in Vendors, body \in QueryBodies : PatchLocation(u, body)
  \/ \E id \in Vendors : AdminToggleActive(id)
  \/ \E q \in Queries, ord \in Orders : GetActive(q, ord)
  \/ Tick(MaxClock)

SpecQuery == Init /\ [][NextQuery]_vars

\* one vendor, two requests at a time
ConcVendors == {1}

\* SetLocation to two positions, SetActive both ways, and both at once
ConcBodies ==
  {b \in Bodies : \/ /\ b.latitude \in {Num(1), Num(2)}
                     /\ b.longitude = Num(1)
                     /\ b.isActive # False
                  \/ /\ b.latitude = Undef
                     /\ b.longitude = Undef
                     /\ b.isActive # Undef}

\* concurrent location and active updates of one vendor, with discovery
\* queries among their statements
NextConc ==
  \/ \E u \in ConcVendors : Register(u)
  \/ \E p \in Procs, u \in ConcVendors : PatchSelect(p, u)
  \/ \E p \in Procs, body \in ConcBodies : PatchBuild(p, body)
  \/ \E p \in Procs : PatchApply(p)
  \/ \E p \in Procs : PatchRespond(p)
  \/ \E ord \in Orders : GetActive(NoQuery, ord)
  \/ Tick(ConcMaxClock)

SpecConc == Init /\ [][NextConc]_vars

\* positions inside and outside latitude [-90, 90] and longitude
\* [-180, 180], and one too wide for the column
RangeBodies ==
  {[latitude |-> Num(la), longitude |-> Num(lo), isActive |-> a] :
     la \in {1, 91, -91, 1000}, lo \in {1, 181}, a \in {Undef, True}}

\* location updates with coordinates of any size
NextRange ==
  \/ \E u \in Vendors : Register(u)
  \/ \E u \in Vendors, body \in RangeBodies : PatchLocation(u, body)
  \/ Tick(WriteMaxClock)

SpecRange == Init /\ [][NextRange]_vars

\* a location report and a deactivation, both well-formed
RaceBodies ==
  {[latitude |-> Num(1), longitude |-> Num(1), isActive |-> True],
   [latitude |-> Undef, longitude |-> Undef, isActive |-> False]}

\* location updates in steps, while an admin deletes the vendor
NextRace ==
  \/ \E u \in ConcVendors : Register(u)
  \/ \E p \in Procs, u \in ConcVendors : PatchSelect(p, u)
  \/ \E p \in Procs, body \in RaceBodies : PatchBuild(p, body)
  \/ \E p \in Procs : PatchApply(p)
  \/ \E p \in Procs : PatchRespond(p)
  \/ \E t \in UserTypes : PatchDenied(t)
  \/ \E id \in ConcVendors : AdminDeleteVendor(id)
  \/ Tick(ConcMaxClock)

SpecRace == Init /\ [][NextRace]_vars

\* concurrent toggle-active requests and no other writer of the flag
NextToggle ==
  \/ \E u \in Vendors : Register(u)
  \/ \E p \in Procs, id \in Vendors : ToggleSelect(p, id)
  \/ \E p \in Procs : ToggleApply(p)

SpecToggle == Init /\ [][NextToggle]_vars

\* the admin routes, each sent by a user of the table who is an admin
NextAdmin ==
  \/ \E u \in Vendors : Register(u)
  \/ \E u \in Vendors : Promote(u)
  \/ \E a, id \in Vendors : AdminDeleteVendorBy(a, id)
  \/ \E a, id \in Vendors : AdminDeleteUser(a, id)
  \/ \E a, id \in Vendors : AdminToggleActiveBy(a, id)
  \/ \E a, id \in Vendors, b \in {True, False} : AdminPutVendorBy(a, id, b)

SpecAdmin == Init /\ [][NextAdmin]_vars

(***************************************************************************)
(* Properties of the vendor records                                        *)
(***************************************************************************)
Live == {v \in Vendors : sellers[v].status = "live"}

Cleared(row) ==
  row.latitude = None /\ row.longitude = None /\ row.lastLocationUpdate = None

\* the last request was a PATCH /location that answered 200
PatchDone == last.op = "patch" /\ last.status = 200

\* C1: every vendor record is inactive if and only if its latitude,
\* longitude and lastUpdate are all absent.
C1_InactiveIffCleared ==
  \A v \in Live : (~sellers[v].isActive) <=> Cleared(sellers[v])

\* C2: latitude and longitude are both present or both absent, and
\* lastUpdate is present if and only if the coordinates are.
C2_CoordinatesPaired ==
  \A v \in Live :
    /\ (sellers[v].latitude = None) <=> (sellers[v].longitude = None)
    /\ (sellers[v].lastLocationUpdate = None) <=> (sellers[v].latitude = None)

\* a PATCH carrying a latitude without a longitude, together with isActive,
\* has been answered for a vendor that holds a position
C2_Witness ==
  /\ PatchDone
  /\ last.body.latitude = Num(2)
  /\ last.body.longitude = Undef
  /\ last.body.isActive = True
  /\ sellers[last.id].latitude = Some(1)

\* C3: right after a successful PATCH /location with isActive = false the
\* vendor is inactive and its latitude, longitude and lastUpdate are
\* absent, also when the request carried coordinates.
C3_DeactivationClears ==
  (PatchDone /\ last.body.isActive = False)
    => (~sellers[last.id].isActive /\ Cleared(sellers[last.id]))

\* an active vendor was deactivated by a request that carried coordinates
C3_Witness ==
  /\ PatchDone
  /\ last.body.isActive = False
  /\ last.body.latitude = Num(1)
  /\ last.body.longitude = Num(1)
  /\ last.wasActive

\* C8: a PATCH with latitude and longitude and without isActive = true,
\* sent by a vendor whose active flag is false, leaves the vendor without
\* coordinates and lastUpdate.
C8_NoLocationWhileInactive ==
  ( /\ last.op = "patch"
    /\ ~last.wasActive
    /\ last.body.latitude # Undef
    /\ last.body.longitude # Undef
    /\ last.body.isActive # True )
    => Cleared(sellers[last.id])

\* C9: a successful PATCH with latitude and longitude and no isActive
\* writes the given coordinates, sets lastUpdate to the time of the
\* request and leaves the active flag as it was.
C9_SetLocationEffect ==
  ( /\ PatchDone
    /\ last.body.latitude # Undef
    /\ last.body.longitude # Undef
    /\ last.body.isActive = Undef )
    => /\ sellers[last.id].latitude = Some(last.body.latitude.v)
       /\ sellers[last.id].longitude = Some(last.body.longitude.v)
       /\ sellers[last.id].lastLocationUpdate = Some(clock)
       /\ sellers[last.id].isActive = last.wasActive

\* an active vendor has moved at a later time
C9_Witness ==
  /\ PatchDone
  /\ last.body.latitude = Num(2)
  /\ last.body.longitude = Num(1)
  /\ last.body.isActive = Undef
  /\ last.wasActive
  /\ clock > 0

(***************************************************************************)
(* Properties of the discovery query                                       *)
(***************************************************************************)
QueryDone == last.op = "query"

InResult(v) == \E i \in DOMAIN last.result : last.result[i].id = v

ResultIds == {last.result[i].id : i \in DOMAIN last.result}

\* minutes since the last position write of a vendor that has one
Age(v) == clock - sellers[v].lastLocationUpdate[1]

HasPosition(row) == row.latitude # None /\ row.longitude # None

\* the query names both coordinates of an origin
OriginSupplied(q) == q.lat # None /\ q.lng # None

\* distance from the origin of q to the stored position of v
DistanceTo(q, v) ==
  calculateDistance(q.lat[1], q.lng[1],
                    sellers[v].latitude[1], sellers[v].longitude[1])

\* C4 (as stated): a vendor passes the freshness test only if lastUpdate is
\* present and less than 15 minutes old; one exactly 15 minutes old is
\* excluded.
C4_StrictlyUnderThreshold ==
  QueryDone =>
    \A v \in Vendors :
      InResult(v) => /\ sellers[v].lastLocationUpdate # None
                     /\ Age(v) < STALE_THRESHOLD_MINUTES

\* C4 (amended): a vendor passes the freshness test if and only if
\* lastUpdate is present and at most 15 minutes old: no returned vendor is
\* older, and an active vendor with a position off the zero axes is
\* returned by a query without origin whenever it is at most 15 minutes old.
C4_FreshUpToThreshold ==
  QueryDone =>
    \A v \in Live :
      /\ InResult(v) => /\ sellers[v].lastLocationUpdate # None
                        /\ Age(v) <= STALE_THRESHOLD_MINUTES
      /\ ( /\ sellers[v].isActive
           /\ TruthyNum(sellers[v].latitude)
           /\ TruthyNum(sellers[v].longitude)
           /\ sellers[v].lastLocationUpdate # None
           /\ Age(v) <= STALE_THRESHOLD_MINUTES
           /\ ~OriginSupplied(last.q) )
           => InResult(v)

\* a vendor whose position is exactly 15 minutes old is returned
C4_Witness ==
  /\ QueryDone
  /\ \E v \in Live : /\ InResult(v)
                      /\ Age(v) = STALE_THRESHOLD_MINUTES

\* C5: an active vendor with a position that has not written for less than
\* the threshold is in every query result whose radius covers it, and one
\* that has not written for longer than the threshold is in none.
C5_IncludedUntilStale ==
  QueryDone =>
    \A v \in Live :
      ( /\ sellers[v].isActive
        /\ HasPosition(sellers[v])
        /\ sellers[v].lastLocationUpdate # None )
        => /\ ( /\ Age(v) < STALE_THRESHOLD_MINUTES
                /\ OriginSupplied(last.q)
                      => DistanceTo(last.q, v) <= 100 * RadiusMiles(last.q) )
                => InResult(v)
           /\ Age(v) > STALE_THRESHOLD_MINUTES => ~InResult(v)

\* the vendors a query should return: active, fresh, with a position
Discoverable ==
  {v \in Live : /\ sellers[v].isActive
                /\ Fresh(sellers[v], clock)
                /\ HasPosition(sellers[v])}

\* C6: a query with an origin returns exactly the active, fresh vendors
\* with coordinates within the radius of the origin, each with its
\* distance, nearest first.
C6_OriginRadiusSorted ==
  (QueryDone /\ OriginSupplied(last.q)) =>
    /\ ResultIds = {v \in Discoverable :
                      DistanceTo(last.q, v) <= 100 * RadiusMiles(last.q)}
    /\ \A i \in DOMAIN last.result :
         last.result[i].distance = DistanceTo(last.q, last.result[i].id)
    /\ \A i, j \in DOMAIN last.result :
         i < j => last.result[i].distance <= last.result[j].distance

\* C7: a query without origin returns exactly the active, fresh vendors
\* that have both coordinates, whatever their values, each with distance 0.
C7_NoOriginAllFresh ==
  (QueryDone /\ last.q.lat = None /\ last.q.lng = None) =>
    /\ ResultIds = Discoverable
    /\ \A i \in DOMAIN last.result : last.result[i].distance = 0

(***************************************************************************)
(* Properties of concurrent updates                                        *)
(***************************************************************************)
Position(row) == <<row.latitude, row.longitude, row.lastLocationUpdate>>

\* request p is applying an update that carries all three columns
Writes(p, row) ==
  /\ req[p].pc = "built"
  /\ req[p].upd.latitude # None
  /\ req[p].upd.longitude # None
  /\ req[p].upd.lastLocationUpdate # None
  /\ Position(row) = <<req[p].upd.latitude[1], req[p].upd.longitude[1],
                       req[p].upd.lastLocationUpdate[1]>>

\* C10: whenever the stored latitude, longitude or lastUpdate of a vendor
\* changes, all three become the values of one single request, and no state
\* holds coordinates without a timestamp or a timestamp without coordinates.
C10_AtomicPairWrite ==
  /\ [](\A v \in Live :
         (sellers[v].latitude = None) = (sellers[v].lastLocationUpdate = None))
  /\ [][\A v \in Vendors :
         Position(sellers'[v]) # Position(sellers[v])
           => \E p \in Procs : /\ Writes(p, sellers'[v])
                               /\ req'[p].pc = "updated"]_vars

\* two requests on the same vendor are in flight with different updates;
\* the first to be applied is in the record, the other still to come
C10_Witness ==
  /\ req[1].pc = "updated"
  /\ req[2].pc = "built"
  /\ req[1].sid = req[2].sid
  /\ req[1].upd # req[2].upd
  /\ req[1].upd.latitude = Some(Some(1))
  /\ sellers[1].latitude = Some(1)
  /\ req[2].upd.isActive = Some(FALSE)

(***************************************************************************)
(* Staleness is read, never stored                                         *)
(***************************************************************************)
\* C13: neither the passage of time nor a discovery query changes any
\* vendor's stored active flag, latitude, longitude or lastUpdate.
C13_ReadsLeaveRecords ==
  [][last'.op \in {"query", "tick"} => sellers' = sellers]_vars

\* a query has left out a stale vendor that is still stored as active, with
\* its position
C13_Witness ==
  /\ QueryDone
  /\ \E v \in Live : /\ sellers[v].isActive
                      /\ HasPosition(sellers[v])
                      /\ sellers[v].lastLocationUpdate # None
                      /\ Age(v) > STALE_THRESHOLD_MINUTES
                      /\ ~InResult(v)

(***************************************************************************)
(* Validation of coordinates                                               *)
(***************************************************************************)
InRange(lat, lng) == lat >= -90 /\ lat <= 90 /\ lng >= -180 /\ lng <= 180

\* C12: a PATCH /location whose latitude or longitude is out of range is
\* rejected as an invalid argument and no record holds an out-of-range
\* coordinate.
C12_MalformedRejected ==
  /\ \A v \in Live :
       HasPosition(sellers[v])
         => InRange(sellers[v].latitude[1], sellers[v].longitude[1])
  /\ ( /\ last.op = "patch"
       /\ last.body.latitude.k = "number"
       /\ last.body.longitude.k = "number"
       /\ ~InRange(last.body.latitude.v, last.body.longitude.v) )
       => last.status = 400

(***************************************************************************)
(* Errors of the location update                                           *)
(***************************************************************************)
\* C11: an update whose caller has no vendor record, also one whose record
\* an admin deleted while the update was in progress, is answered 404; one
\* whose caller is not a seller is answered 403.
C11_MissingRecordNotFound ==
  /\ (last.op = "patchDenied" => last.status = 403)
  /\ ( /\ last.op = "patchResponse"
       /\ last.id \in Vendors
       /\ sellers[last.id].status = "deleted" )
       => last.status = 404

(***************************************************************************)
(* Admin toggle                                                            *)
(***************************************************************************)
\* C15: every toggle-active request that completes with success flips the
\* vendor's stored active flag, whatever other toggle requests are in
\* flight.
C15_ToggleFlipsOnce ==
  [][\A p \in Procs :
       ( /\ req[p].pc = "toggling"
         /\ req'[p].pc = "idle"
         /\ last'.status = 200 )
       => sellers'[req[p].sid[1]].isActive = ~sellers[req[p].sid[1]].isActive]_vars

(***************************************************************************)
(* Admin accounts                                                          *)
(***************************************************************************)
AdminOps == {"adminDelete", "adminDeleteUser", "adminToggle", "adminPut"}

\* a is the only admin, so every admin request is sent by a
OnlyAdmin(a) ==
  /\ users[a] = "admin"
  /\ \A b \in Vendors \ {a} : users[b] # "admin"

\* C14: no admin request sent by admin A removes A's own user record, also
\* when A owns a seller record.
C14_AdminKeepsOwnAccount ==
  [][\A a \in Vendors :
       (OnlyAdmin(a) /\ last'.op \in AdminOps) => users'[a] = "admin"]_vars

====
